---- MODULE Spec2Model ----
(***************************************************************************)
(* Model of the Epson WorkForce integration: the polling API object        *)
(* (api.py, EpsonWorkForceAPI), the status page parser (parser.py,         *)
(* EpsonHTMLParser) and the Home Assistant glue (config_flow.py,           *)
(* __init__.py, sensor.py).                                                *)
(*                                                                         *)
(* Text is a sequence of one-character strings.  An optional value is a    *)
(* sequence of length 0 (Python None) or 1 (the value).  A page is the     *)
(* document tree BeautifulSoup builds, reduced to the elements the code    *)
(* queries.                                                                *)
(***************************************************************************)
EXTENDS Integers, Sequences, FiniteSets, TLC

VARIABLES soup, available, model_, mac_, pc, constructed, lastOk,
          raisedToCaller, lastRead, p_soup, p_source, p_record, p_parses,
          f_step, f_errors, f_conn, f_submitted, f_validated, entries,
          configured, c_setup, last_update_success, entities, e_page

vars == <<soup, available, model_, mac_, pc, constructed, lastOk,
          raisedToCaller, lastRead, p_soup, p_source, p_record, p_parses,
          f_step, f_errors, f_conn, f_submitted, f_validated, entries,
          configured, c_setup, last_update_success, entities, e_page>>

apiVars == <<soup, available, model_, mac_, pc, constructed, lastOk,
             raisedToCaller, lastRead>>

parserVars == <<p_soup, p_source, p_record, p_parses>>

flowVars == <<f_step, f_errors, f_conn, f_submitted, f_validated, entries, configured>>

coordVars == <<c_setup, last_update_success, entities, e_page>>

haVars == <<flowVars, coordVars>>

-----------------------------------------------------------------------------
(* Optional values: Python None and a present value.                       *)
None == <<>>

Some(v) == <<v>>

IsNone(o) == o = <<>>

Get(o) == o[1]

Max2(a, b) == IF a >= b THEN a ELSE b

Min2(a, b) == IF a <= b THEN a ELSE b

-----------------------------------------------------------------------------
(* Text: str.strip, str.upper, str.lower, str.endswith, len, s[:-1].       *)
(* "nbsp" stands for the single character NO-BREAK SPACE (U+00A0), which   *)
(* str.strip() removes like any other white space.                         *)
IsSpace(c) == c \in {" ", "\n", "\t", "nbsp"}

RECURSIVE LStrip(_)
LStrip(s) == IF s # <<>> /\ IsSpace(Head(s)) THEN LStrip(Tail(s)) ELSE s

RECURSIVE RStrip(_)
RStrip(s) ==
    IF s # <<>> /\ IsSpace(s[Len(s)]) THEN RStrip(SubSeq(s, 1, Len(s) - 1)) ELSE s

Strip(s) == RStrip(LStrip(s))

LowerAlpha ==
    <<"a", "b", "c", "d", "e", "f", "g", "h", "i", "j", "k", "l", "m",
      "n", "o", "p", "q", "r", "s", "t", "u", "v", "w", "x", "y", "z">>

UpperAlpha ==
    <<"A", "B", "C", "D", "E", "F", "G", "H", "I", "J", "K", "L", "M",
      "N", "O", "P", "Q", "R", "S", "T", "U", "V", "W", "X", "Y", "Z">>

LowerLetters == {LowerAlpha[i] : i \in DOMAIN LowerAlpha}

UpperLetters == {UpperAlpha[i] : i \in DOMAIN UpperAlpha}

AlphaIndex(alpha, c) == CHOOSE i \in DOMAIN alpha : alpha[i] = c

UpperChar(c) == IF c \in LowerLetters THEN UpperAlpha[AlphaIndex(LowerAlpha, c)] ELSE c

LowerChar(c) == IF c \in UpperLetters THEN LowerAlpha[AlphaIndex(UpperAlpha, c)] ELSE c

Upper(s) == [i \in 1..Len(s) |-> UpperChar(s[i])]

Lower(s) == [i \in 1..Len(s) |-> LowerChar(s[i])]

EndsWithPeriod(s) == s # <<>> /\ s[Len(s)] = "."

DropLast(s) == SubSeq(s, 1, Len(s) - 1)

(* Tag.get_text(sep, strip=True): the stripped, non-empty text nodes of    *)
(* the element joined by sep.                                              *)
RECURSIVE GetTextStrip(_, _)
GetTextStrip(sep, nodes) ==
    IF nodes = <<>> THEN <<>>
    ELSE LET h == Strip(Head(nodes))
             r == GetTextStrip(sep, Tail(nodes))
         IN  IF h = <<>> THEN r
             ELSE IF r = <<>> THEN h
             ELSE h \o sep \o r

-----------------------------------------------------------------------------
(* parser.py: status clean-up.                                             *)
MAX_STATUS_LENGTH == 40

RECURSIVE SkipSpace(_, _)
SkipSpace(s, i) == IF i <= Len(s) /\ IsSpace(s[i]) THEN SkipSpace(s, i + 1) ELSE i

HasAt(s, i, w) == i + Len(w) - 1 <= Len(s) /\ Lower(SubSeq(s, i, i + Len(w) - 1)) = w

(* re.sub(r"^(?:printer|scanner)\s+status\s*[:\-]?\s*", "", s, IGNORECASE):  *)
(* the index of the first character after the matched label, 1 when the    *)
(* pattern does not match at the start of s.                               *)
LabelEnd(s) ==
    LET w1 == IF HasAt(s, 1, <<"p","r","i","n","t","e","r">>)
                 \/ HasAt(s, 1, <<"s","c","a","n","n","e","r">>) THEN 8 ELSE 0
        j  == SkipSpace(s, 8)
        k  == SkipSpace(s, j + 6)
        k3 == IF k <= Len(s) /\ s[k] \in {":", "-"} THEN k + 1 ELSE k
    IN  IF w1 = 8 /\ j > 8 /\ HasAt(s, j, <<"s","t","a","t","u","s">>)
        THEN SkipSpace(s, k3)
        ELSE 1

DropLabel(s) == SubSeq(s, LabelEnd(s), Len(s))

P_clean_status_keeps_empty(s) ==
    IF s = <<>> THEN None
    ELSE LET t == DropLabel(Strip(s))
         IN  IF Len(t) <= MAX_STATUS_LENGTH /\ EndsWithPeriod(t) THEN Some(DropLast(t))
             ELSE Some(t)

(* EpsonHTMLParser._clean_status: optional text in, optional text out.     *)
P_clean_status(s) ==
    IF s = <<>> THEN None
    ELSE LET t == DropLabel(Strip(s))
             u == IF Len(t) <= MAX_STATUS_LENGTH /\ EndsWithPeriod(t) THEN DropLast(t) ELSE t
         IN  IF u = <<>> THEN None ELSE Some(u)

-----------------------------------------------------------------------------
(* api.py: status clean-up with its own threshold.                         *)
API_MAX_STATUS_LENGTH == 30

(* EpsonWorkForceAPI._clean_status: None for a falsy status, otherwise the *)
(* text (possibly empty) with one trailing period removed when short.      *)
A_clean_status(s) ==
    IF s = <<>> THEN None
    ELSE IF Len(s) < API_MAX_STATUS_LENGTH /\ EndsWithPeriod(s) THEN Some(DropLast(s))
    ELSE Some(s)

-----------------------------------------------------------------------------
(* Numbers in attribute text: str.isdigit, int(), round().                 *)
(* "^2" stands for the single character SUPERSCRIPT TWO (U+00B2), for      *)
(* which str.isdigit() is True and int() raises ValueError.                *)
AsciiDigits == {"0", "1", "2", "3", "4", "5", "6", "7", "8", "9"}

DigitVal(c) ==
    CASE c = "0" -> 0 [] c = "1" -> 1 [] c = "2" -> 2 [] c = "3" -> 3 [] c = "4" -> 4
      [] c = "5" -> 5 [] c = "6" -> 6 [] c = "7" -> 7 [] c = "8" -> 8 [] c = "9" -> 9

IsDigitChar(c) == c \in AsciiDigits \cup {"^2"}

(* str.isdigit(): non-empty and every character a digit character.         *)
StrIsDigit(s) == s # <<>> /\ \A i \in 1..Len(s) : IsDigitChar(s[i])

RECURSIVE DecimalValue(_)
DecimalValue(s) ==
    IF s = <<>> THEN 0 ELSE 10 * DecimalValue(DropLast(s)) + DigitVal(s[Len(s)])

AllAscii(s) == s # <<>> /\ \A i \in 1..Len(s) : s[i] \in AsciiDigits

(* int(text): surrounding whitespace and one sign are accepted; None       *)
(* stands for ValueError.                                                  *)
PyInt(s) ==
    LET t == Strip(s)
    IN  IF t # <<>> /\ t[1] = "-" /\ AllAscii(Tail(t)) THEN Some(0 - DecimalValue(Tail(t)))
        ELSE IF t # <<>> /\ t[1] = "+" /\ AllAscii(Tail(t)) THEN Some(DecimalValue(Tail(t)))
        ELSE IF AllAscii(t) THEN Some(DecimalValue(t))
        ELSE None

(* int(round(x)) for x given in tenths: Python rounds halves to even.      *)
PyRoundTenths(t) ==
    LET q == t \div 10
        r == t % 10
    IN  IF r < 5 THEN q
        ELSE IF r > 5 THEN q + 1
        ELSE IF q % 2 = 0 THEN q ELSE q + 1

-----------------------------------------------------------------------------
(* parser.py: gradient-stop encoding.  A style is the inline style of the  *)
(* inner div.tank: whether it contains "linear-gradient" and its percent   *)
(* tokens (in tenths) in order of appearance.                              *)
PercentFromFirstStop(style) ==
    IF IsNone(style) THEN None
    ELSE IF ~Get(style).gradient THEN None
    ELSE IF Len(Get(style).pcts) < 2 THEN None
    ELSE Some(Max2(0, Min2(100, PyRoundTenths(Get(style).pcts[1]))))

(* _percent_from_linear_gradient(style_val)                                *)
P_percent_from_linear_gradient(style) ==
    IF IsNone(style) THEN None
    ELSE IF ~Get(style).gradient THEN None
    ELSE IF Len(Get(style).pcts) < 2 THEN None
    ELSE Some(Max2(0, Min2(100, PyRoundTenths(Get(style).pcts[2]))))

-----------------------------------------------------------------------------
(* parser.py: pixel-height encoding.  The result of a step that can raise  *)
(* is [raised, v]: raised = TRUE when the exception leaves the function.   *)
Ret(v) == [raised |-> FALSE, v |-> v]

Raise == [raised |-> TRUE, v |-> None]

RECURSIVE FirstImg(_, _)
FirstImg(kids, needColor) ==
    IF kids = <<>> THEN None
    ELSE IF Head(kids).tag = "img" /\ (~needColor \/ Head(kids).color) THEN Some(Head(kids))
    ELSE FirstImg(Tail(kids), needColor)

(* bar_div.find("img", class_="color") or bar_div.find("img")              *)
BarImg(bar) ==
    IF ~IsNone(FirstImg(bar.kids, TRUE)) THEN FirstImg(bar.kids, TRUE)
    ELSE FirstImg(bar.kids, FALSE)

(* EpsonHTMLParser._li_bar_percent                                         *)
P_li_bar_percent(li) ==
    IF IsNone(li.bar) THEN Ret(None)
    ELSE LET img == BarImg(Get(li.bar))
         IN  IF IsNone(img) THEN Ret(None)
             ELSE LET h == Get(img).height
                  IN  IF ~IsNone(h) /\ StrIsDigit(Get(h))
                      THEN IF IsNone(PyInt(Get(h))) THEN Raise
                           ELSE Ret(Some(Get(PyInt(Get(h))) * 2))
                      ELSE IF ~IsNone(Get(img).styleHeight)
                           THEN Ret(Some(Get(Get(img).styleHeight) * 2))
                           ELSE Ret(None)

(* EpsonHTMLParser._li_gradient_percent                                    *)
P_li_gradient_percent(li) ==
    IF IsNone(li.bar) THEN None
    ELSE P_percent_from_linear_gradient(Get(li.bar).style)

RECURSIVE FirstLabel(_)
(* lines 185-193: the first div.clrname with non-empty stripped text gives *)
(* the label, uppercased.                                                  *)
FirstLabel(clr) ==
    IF clr = <<>> THEN None
    ELSE LET txt == GetTextStrip(<<>>, <<Head(clr)>>)
         IN  IF txt # <<>> THEN Some(Upper(txt)) ELSE FirstLabel(Tail(clr))

IsMaintenanceNever(li) == FALSE

(* lines 196-200: any div with the class mbicn.                            *)
IsMaintenance(li) == ~IsNone(li.mb)

(* lines 203-208: the level of one tank item; the gradient is tried only   *)
(* when the pixel height gave None.                                        *)
TankPct(li) ==
    LET b == P_li_bar_percent(li)
    IN  IF b.raised THEN Raise
        ELSE IF ~IsNone(b.v) THEN b
        ELSE Ret(P_li_gradient_percent(li))

EmptyInks == [k \in {} |-> 0]

PutInk(inks, k, v) == [x \in DOMAIN inks \cup {k} |-> IF x = k THEN v ELSE inks[x]]

Levels(inks, maint) == [raised |-> FALSE, inks |-> inks, maintenance |-> maint]

LevelsRaise == [raised |-> TRUE, inks |-> EmptyInks, maintenance |-> None]

RECURSIVE TankLoop(_, _, _)
TankLoop(tanks, inks, maint) ==
    IF tanks = <<>> THEN Levels(inks, maint)
    ELSE LET li  == Head(tanks)
             pct == TankPct(li)
         IN  IF pct.raised THEN LevelsRaise
             ELSE IF IsNone(pct.v) THEN TankLoop(Tail(tanks), inks, maint)
             ELSE IF IsMaintenance(li) THEN TankLoop(Tail(tanks), inks, pct.v)
             ELSE IF ~IsNone(FirstLabel(li.clr))
                  THEN TankLoop(Tail(tanks), PutInk(inks, Get(FirstLabel(li.clr)), Get(pct.v)), maint)
             ELSE TankLoop(Tail(tanks), inks, maint)

(* EpsonHTMLParser._parse_inks_and_maintenance                             *)
P_parse_inks_and_maintenance(page) == TankLoop(page.tanks, EmptyInks, None)

-----------------------------------------------------------------------------
(* parser.py: model and status of a page.                                  *)
Epson(t) == <<"E", "p", "s", "o", "n", " ">> \o t

P_parse_model_header_first(page) ==
    IF ~IsNone(page.header) /\ GetTextStrip(<<>>, <<Get(page.header)>>) # <<>>
    THEN Some(Epson(GetTextStrip(<<>>, <<Get(page.header)>>)))
    ELSE IF ~IsNone(page.title) /\ Strip(Get(page.title)) # <<>>
    THEN Some(Epson(Strip(Get(page.title))))
    ELSE None

(* EpsonHTMLParser._parse_model                                            *)
P_parse_model(page) ==
    IF ~IsNone(page.title) /\ Strip(Get(page.title)) # <<>>
    THEN Some(Epson(Strip(Get(page.title))))
    ELSE IF ~IsNone(page.header) /\ GetTextStrip(<<>>, <<Get(page.header)>>) # <<>>
    THEN Some(Epson(GetTextStrip(<<>>, <<Get(page.header)>>)))
    ELSE None

(* The text nodes of a fieldset: those before its list, then the list's.   *)
FieldsetNodes(fs) == fs.pre \o (IF IsNone(fs.ul) THEN <<>> ELSE Get(fs.ul))

(* lines 137-140: fieldset#PRT_STATUS, flattened with " ".                 *)
P_primary_status(page) ==
    IF IsNone(page.fs) THEN None
    ELSE P_clean_status(GetTextStrip(<<" ">>, FieldsetNodes(Get(page.fs))))

(* lines 150-156: div.information, its first span.                         *)
P_fallback_status(page) ==
    IF IsNone(page.info) \/ Get(page.info) = <<>> THEN None
    ELSE P_clean_status(GetTextStrip(<<>>, Head(Get(page.info)).nodes))

P_printer_status_fallback_first(page) ==
    IF ~IsNone(P_fallback_status(page)) THEN P_fallback_status(page)
    ELSE P_primary_status(page)

(* EpsonHTMLParser._parse_statuses, the printer slot.                      *)
P_printer_status(page) ==
    IF ~IsNone(P_primary_status(page)) THEN P_primary_status(page)
    ELSE P_fallback_status(page)

(* EpsonHTMLParser._parse_statuses, the scanner slot (no fallback).        *)
P_scanner_status(page) ==
    IF IsNone(page.scn) THEN None
    ELSE P_clean_status(GetTextStrip(<<" ">>, FieldsetNodes(Get(page.scn))))

-----------------------------------------------------------------------------
(* api.py: values returned to the caller: None, a string or an integer.    *)
RNone == [t |-> "none", s |-> <<>>, n |-> 0]

RStr(s) == [t |-> "str", s |-> s, n |-> 0]

RInt(n) == [t |-> "int", s |-> <<>>, n |-> n]

Unknown == <<"U", "n", "k", "n", "o", "w", "n">>

FallbackModel ==
    <<"W", "o", "r", "k", "F", "o", "r", "c", "e", " ", "P", "r", "i", "n", "t", "e", "r">>

Waste == <<"W", "a", "s", "t", "e">>

SensorNames ==
    {"black", "photoblack", "magenta", "cyan", "yellow", "lightcyan", "lightmagenta", "clean"}

(* LEVEL_SENSOR_TO_DIV: sensor name -> (class of the marker div, its text) *)
LEVEL_SENSOR_TO_DIV ==
    [s \in SensorNames |->
        CASE s = "black"        -> [div |-> "clrname", text |-> <<"B", "K">>]
          [] s = "photoblack"   -> [div |-> "clrname", text |-> <<"P", "B">>]
          [] s = "magenta"      -> [div |-> "clrname", text |-> <<"M">>]
          [] s = "cyan"         -> [div |-> "clrname", text |-> <<"C">>]
          [] s = "yellow"       -> [div |-> "clrname", text |-> <<"Y">>]
          [] s = "lightcyan"    -> [div |-> "clrname", text |-> <<"L", "C">>]
          [] s = "lightmagenta" -> [div |-> "clrname", text |-> <<"L", "M">>]
          [] s = "clean"        -> [div |-> "mbicn", text |-> Waste]]

(* li.find("div", class_=div_name): the content of the first such div.     *)
MarkerDiv(li, divName) ==
    IF divName = "mbicn" THEN li.mb
    ELSE IF li.clr = <<>> THEN None ELSE Some(Head(li.clr))

(* line 53: int(li.find("div", class_="tank").findChild()["height"]) * 2;  *)
(* None stands for the exception the expression raises.                    *)
A_tank_level(li) ==
    IF IsNone(li.bar) THEN None
    ELSE IF Get(li.bar).kids = <<>> THEN None
    ELSE IF IsNone(Head(Get(li.bar).kids).height) THEN None
    ELSE IF IsNone(PyInt(Get(Head(Get(li.bar).kids).height))) THEN None
    ELSE Some(Get(PyInt(Get(Head(Get(li.bar).kids).height))) * 2)

RECURSIVE A_scan_tanks(_, _)
(* lines 48-57: the loop over li.tank inside try/except: any exception     *)
(* ends the scan and the function returns None.                            *)
A_scan_tanks(tanks, info) ==
    IF tanks = <<>> THEN RNone
    ELSE LET div == MarkerDiv(Head(tanks), info.div)
         IN  IF IsNone(div) THEN A_scan_tanks(Tail(tanks), info)
             ELSE IF Get(div) = <<>> THEN RNone
             ELSE IF info.text = Get(div) \/ info.text = Waste
                  THEN IF IsNone(A_tank_level(Head(tanks))) THEN RNone
                       ELSE RInt(Get(A_tank_level(Head(tanks))))
             ELSE A_scan_tanks(Tail(tanks), info)

(* EpsonWorkForceAPI._get_fieldset_status                                  *)
A_get_fieldset_status(page) ==
    IF IsNone(page.fs) THEN None
    ELSE IF IsNone(Get(page.fs).ul) THEN None
    ELSE A_clean_status(GetTextStrip(<<>>, Get(Get(page.fs).ul)))

RECURSIVE FirstSpan(_, _)
FirstSpan(spans, needClearfix) ==
    IF spans = <<>> THEN None
    ELSE IF ~needClearfix \/ Head(spans).clearfix THEN Some(Head(spans))
    ELSE FirstSpan(Tail(spans), needClearfix)

(* EpsonWorkForceAPI._get_information_div_status                           *)
A_get_information_div_status(page) ==
    IF IsNone(page.info) THEN None
    ELSE LET spans == Get(page.info)
             span  == IF ~IsNone(FirstSpan(spans, TRUE)) THEN FirstSpan(spans, TRUE)
                      ELSE FirstSpan(spans, FALSE)
         IN  IF IsNone(span) THEN None
             ELSE A_clean_status(GetTextStrip(<<>>, Get(span).nodes))

Truthy(o) == ~IsNone(o) /\ Get(o) # <<>>

(* EpsonWorkForceAPI._get_printer_status                                   *)
A_get_printer_status(page) ==
    IF Truthy(A_get_fieldset_status(page)) THEN RStr(Get(A_get_fieldset_status(page)))
    ELSE IF Truthy(A_get_information_div_status(page))
    THEN RStr(Get(A_get_information_div_status(page)))
    ELSE RStr(Unknown)

A_get_sensor_value_zero_default(sp, sensor) ==
    IF IsNone(sp) THEN RNone
    ELSE IF sensor = Some("printer_status") THEN A_get_printer_status(Get(sp))
    ELSE IF IsNone(sensor) \/ Get(sensor) \notin SensorNames THEN RInt(0)
    ELSE A_scan_tanks(Get(sp).tanks, LEVEL_SENSOR_TO_DIV[Get(sensor)])

(* EpsonWorkForceAPI.get_sensor_value; sp is self.soup, sensor an optional *)
(* name.                                                                   *)
A_get_sensor_value(sp, sensor) ==
    IF IsNone(sp) THEN RNone
    ELSE IF sensor = Some("printer_status") THEN A_get_printer_status(Get(sp))
    ELSE IF IsNone(sensor) \/ Get(sensor) \notin SensorNames THEN RNone
    ELSE A_scan_tanks(Get(sp).tanks, LEVEL_SENSOR_TO_DIV[Get(sensor)])

(* EpsonWorkForceAPI.model                                                 *)
A_model(m) == IF Truthy(m) THEN RStr(Get(m)) ELSE RStr(FallbackModel)

(* EpsonWorkForceAPI.mac_address                                           *)
A_mac_address(m) == IF IsNone(m) THEN RNone ELSE RStr(Get(m))

(* _extract_device_info, lines 75-84: the new value of self._model.        *)
A_extract_model(page, old) ==
    IF ~IsNone(page.title) /\ Get(page.title) # <<>> /\ Strip(Get(page.title)) # <<>>
    THEN Some(Epson(Strip(Get(page.title))))
    ELSE old

(* _extract_device_info, lines 86-100: the new value of self._mac_address. *)
(* page.macRest is what follows "MAC Address" on the first text line that  *)
(* holds both "MAC Address" and ":".                                       *)
A_extract_mac(page, old) ==
    IF IsNone(page.macRest) THEN old
    ELSE LET m == Strip(Get(page.macRest))
         IN  IF m # <<>> /\ m[1] = ":" THEN Some(Strip(Tail(m))) ELSE Some(m)

-----------------------------------------------------------------------------
(* parser.py: value patterns searched in the flattened page text.  \b is a *)
(* position between a word character and a non-word character or an end   *)
(* of the text; every pattern starts and ends with a word character.       *)
HexChars == AsciiDigits \cup {"A", "B", "C", "D", "E", "F", "a", "b", "c", "d", "e", "f"}

WordChars == AsciiDigits \cup UpperLetters \cup LowerLetters \cup {"_"}

BoundaryBefore(s, i) == i = 1 \/ s[i - 1] \notin WordChars

BoundaryAfter(s, j) == j = Len(s) \/ s[j + 1] \notin WordChars

Least(S) == CHOOSE i \in S : \A j \in S : i <= j

MacShape ==
    <<"h", "h", ":", "h", "h", ":", "h", "h", ":", "h", "h", ":", "h", "h", ":", "h", "h">>

(* RE_MAC matches at i: ([0-9A-F]{2}:){5}[0-9A-F]{2}, ignoring case.       *)
MacAt(s, i) ==
    /\ i + Len(MacShape) - 1 <= Len(s)
    /\ \A k \in 1..Len(MacShape) :
          IF MacShape[k] = ":" THEN s[i + k - 1] = ":" ELSE s[i + k - 1] \in HexChars
    /\ BoundaryBefore(s, i)
    /\ BoundaryAfter(s, i + Len(MacShape) - 1)

(* RE_MAC.search(txt): m.group(0) of the leftmost match, None without one. *)
RE_MAC_search(s) ==
    LET M == {i \in 1..Len(s) : MacAt(s, i)}
    IN  IF M = {} THEN None ELSE Some(SubSeq(s, Least(M), Least(M) + Len(MacShape) - 1))

DevNameShape == <<"E", "P", "S", "O", "N", "h", "h", "h", "h", "h", "h">>

(* RE_EPSON_DEVNAME matches at i: EPSON[0-9A-F]{6}, ignoring case.         *)
DevNameAt(s, i) ==
    /\ i + Len(DevNameShape) - 1 <= Len(s)
    /\ \A k \in 1..Len(DevNameShape) :
          IF DevNameShape[k] = "h" THEN s[i + k - 1] \in HexChars
          ELSE UpperChar(s[i + k - 1]) = DevNameShape[k]
    /\ BoundaryBefore(s, i)
    /\ BoundaryAfter(s, i + Len(DevNameShape) - 1)

(* RE_EPSON_DEVNAME.search(txt)                                            *)
RE_EPSON_DEVNAME_search(s) ==
    LET M == {i \in 1..Len(s) : DevNameAt(s, i)}
    IN  IF M = {} THEN None ELSE Some(SubSeq(s, Least(M), Least(M) + Len(DevNameShape) - 1))

RECURSIVE DigitRunEnd(_, _)
(* The index of the last digit of the run of digits starting at i; i - 1   *)
(* when there is no digit at i.                                            *)
DigitRunEnd(s, i) ==
    IF i <= Len(s) /\ s[i] \in AsciiDigits THEN DigitRunEnd(s, i + 1) ELSE i - 1

(* 25[0-5]|2[0-4]\d|1\d\d|[1-9]?\d matching the whole of t.                *)
ValidOctet(t) ==
    /\ Len(t) \in 1..3
    /\ Len(t) = 1 \/ t[1] # "0"
    /\ DecimalValue(t) <= 255

RECURSIVE OctetsEnd(_, _, _)
(* n octets separated by "." starting at i: the index of the last digit, 0 *)
(* when the text does not match.  An octet followed by "." or by \b can    *)
(* only be the whole run of digits.                                        *)
OctetsEnd(s, i, n) ==
    LET e == DigitRunEnd(s, i)
    IN  IF e < i \/ ~ValidOctet(SubSeq(s, i, e)) THEN 0
        ELSE IF n = 1 THEN e
        ELSE IF e + 1 <= Len(s) /\ s[e + 1] = "." THEN OctetsEnd(s, e + 2, n - 1)
        ELSE 0

IPv4At(s, i) ==
    /\ BoundaryBefore(s, i)
    /\ OctetsEnd(s, i, 4) > 0
    /\ BoundaryAfter(s, OctetsEnd(s, i, 4))

(* RE_IPV4.search(txt)                                                     *)
RE_IPV4_search(s) ==
    LET M == {i \in 1..Len(s) : IPv4At(s, i)}
    IN  IF M = {} THEN None ELSE Some(SubSeq(s, Least(M), OctetsEnd(s, Least(M), 4)))

-----------------------------------------------------------------------------
(* parser.py: key/value tables.  A table is the sequence of its rows; a    *)
(* row holds the text of its td.item-key and td.item-value cells, None for *)
(* a missing cell.                                                         *)
RECURSIVE ReplaceAll(_, _, _)
(* str.replace(a, r)                                                       *)
ReplaceAll(s, a, r) ==
    IF Len(s) < Len(a) THEN s
    ELSE IF SubSeq(s, 1, Len(a)) = a THEN r \o ReplaceAll(SubSeq(s, Len(a) + 1, Len(s)), a, r)
    ELSE <<Head(s)>> \o ReplaceAll(Tail(s), a, r)

(* _clean_key                                                              *)
P_clean_key(t) ==
    LET u == Strip(ReplaceAll(ReplaceAll(t, <<"nbsp", ":">>, <<>>), <<" ", ":">>, <<":">>))
    IN  IF u # <<>> /\ u[Len(u)] = ":" THEN Strip(DropLast(u)) ELSE u

(* _clean_value                                                            *)
P_clean_value(t) == Strip(ReplaceAll(t, <<"nbsp">>, <<" ">>))

EmptyTable == [k \in {} |-> <<>>]

PutRow(data, k, v) == [x \in DOMAIN data \cup {k} |-> IF x = k THEN v ELSE data[x]]

RECURSIVE TableLoop(_, _)
TableLoop(rows, data) ==
    IF rows = <<>> THEN data
    ELSE LET tr == Head(rows)
         IN  IF IsNone(tr.key) \/ IsNone(tr.val) THEN TableLoop(Tail(rows), data)
             ELSE LET key == P_clean_key(GetTextStrip(<<" ">>, <<Get(tr.key)>>))
                      val == P_clean_value(GetTextStrip(<<" ">>, <<Get(tr.val)>>))
                  IN  IF key # <<>> THEN TableLoop(Tail(rows), PutRow(data, key, val))
                      ELSE TableLoop(Tail(rows), data)

(* EpsonHTMLParser._parse_table_by_container_id; tbl is the element with   *)
(* the container id, None when the page has none.                          *)
P_parse_table_by_container_id(tbl) ==
    IF IsNone(tbl) THEN EmptyTable ELSE TableLoop(Get(tbl), EmptyTable)

(* network.get(key) or ...: the value when present and non-empty.          *)
TableGet(data, key) ==
    IF key \in DOMAIN data /\ data[key] # <<>> THEN Some(data[key]) ELSE None

KeyDeviceName == <<"D", "e", "v", "i", "c", "e", " ", "N", "a", "m", "e">>

KeyPrinterName == <<"P", "r", "i", "n", "t", "e", "r", " ", "N", "a", "m", "e">>

KeyMacAddress == <<"M", "A", "C", " ", "A", "d", "d", "r", "e", "s", "s">>

KeyMacAddressLower == <<"M", "A", "C", " ", "a", "d", "d", "r", "e", "s", "s">>

KeyIpAddress == <<"I", "P", " ", "A", "d", "d", "r", "e", "s", "s">>

RECURSIVE TankNodes(_)
TankNodes(tanks) ==
    IF tanks = <<>> THEN <<>>
    ELSE Head(tanks).clr
         \o (IF IsNone(Head(tanks).mb) THEN <<>> ELSE <<Get(Head(tanks).mb)>>)
         \o TankNodes(Tail(tanks))

RECURSIVE RowNodes(_)
RowNodes(rows) ==
    IF rows = <<>> THEN <<>>
    ELSE (IF IsNone(Head(rows).key) THEN <<>> ELSE <<Get(Head(rows).key)>>)
         \o (IF IsNone(Head(rows).val) THEN <<>> ELSE <<Get(Head(rows).val)>>)
         \o RowNodes(Tail(rows))

RECURSIVE SpanNodes(_)
SpanNodes(spans) ==
    IF spans = <<>> THEN <<>> ELSE Head(spans).nodes \o SpanNodes(Tail(spans))

OptNode(o) == IF IsNone(o) THEN <<>> ELSE <<Get(o)>>

(* The text nodes of the document, in document order; the line that holds  *)
(* "MAC Address" is that label followed by page.macRest.                   *)
PageNodes(page) ==
    OptNode(page.title)
    \o OptNode(page.header)
    \o (IF IsNone(page.fs) THEN <<>> ELSE FieldsetNodes(Get(page.fs)))
    \o (IF IsNone(page.scn) THEN <<>> ELSE FieldsetNodes(Get(page.scn)))
    \o (IF IsNone(page.info) THEN <<>> ELSE SpanNodes(Get(page.info)))
    \o TankNodes(page.tanks)
    \o (IF IsNone(page.macRest) THEN <<>> ELSE <<KeyMacAddress \o Get(page.macRest)>>)
    \o (IF IsNone(page.net) THEN <<>> ELSE RowNodes(Get(page.net)))
    \o (IF IsNone(page.wfd) THEN <<>> ELSE RowNodes(Get(page.wfd)))
    \o <<page.text>>

(* self.soup.get_text(" ", strip=True)                                     *)
PageText(page) == GetTextStrip(<<" ">>, PageNodes(page))

(* EpsonHTMLParser._extract_mac_from_text                                  *)
P_extract_mac_from_text(page) == RE_MAC_search(PageText(page))

(* EpsonHTMLParser._extract_ip_from_text                                   *)
P_extract_ip_from_text(page) == RE_IPV4_search(PageText(page))

(* EpsonHTMLParser._extract_device_name                                    *)
P_extract_device_name(page) ==
    IF IsNone(RE_EPSON_DEVNAME_search(PageText(page))) THEN None
    ELSE Some(Upper(Get(RE_EPSON_DEVNAME_search(PageText(page)))))

(* a or b for optional texts: a when it is present and non-empty.          *)
Or(a, b) == IF ~IsNone(a) /\ Get(a) # <<>> THEN a ELSE b

P_name_model_first(page) ==
    LET network == P_parse_table_by_container_id(page.net)
    IN  Or(P_parse_model(page),
           Or(TableGet(network, KeyDeviceName),
              Or(TableGet(network, KeyPrinterName), P_extract_device_name(page))))

(* parse(), lines 98-103: the name.                                        *)
P_name(page) ==
    LET network == P_parse_table_by_container_id(page.net)
    IN  Or(TableGet(network, KeyDeviceName),
           Or(TableGet(network, KeyPrinterName),
              Or(P_extract_device_name(page), P_parse_model(page))))

(* parse(), lines 108-112: the MAC address.                                *)
P_mac(page) ==
    LET network == P_parse_table_by_container_id(page.net)
    IN  Or(TableGet(network, KeyMacAddress),
           Or(TableGet(network, KeyMacAddressLower), P_extract_mac_from_text(page)))

(* parse(), line 116: the IP address.                                      *)
P_ip(page) ==
    Or(TableGet(P_parse_table_by_container_id(page.net), KeyIpAddress),
       P_extract_ip_from_text(page))

(* if value: out[key] = value                                              *)
IfTruthy(o) == IF ~IsNone(o) /\ Get(o) # <<>> THEN o ELSE None

-----------------------------------------------------------------------------
(* The pages a device may serve.                                           *)
MaxTanks == 2

MaxStatusLen == 42

Pad(n) == [i \in 1..n |-> "x"]

Dot == <<".">>

LabelText == <<"P", "r", "i", "n", "t", "e", "r", " ", "S", "t", "a", "t", "u", "s", ":">>

Ready == <<"R", "e", "a", "d", "y">>

Busy == <<"B", "u", "s", "y", ".">>

(* Status texts: every length around the two thresholds ending in a        *)
(* period, and short texts with zero, one and two periods, blanks, labels. *)
StatusTexts ==
    {Pad(n) \o Dot : n \in (API_MAX_STATUS_LENGTH - 3)..(MaxStatusLen - 1)}
    \cup {Pad(MAX_STATUS_LENGTH), Pad(API_MAX_STATUS_LENGTH)}
    \cup {<<>>, <<" ", " ">>, Dot, Ready, Ready \o Dot, Ready \o Dot \o Dot,
          <<" ">> \o Ready \o Dot \o <<" ">>,
          LabelText \o <<" ">> \o Ready \o Dot,
          LabelText \o <<" ">> \o Pad(MAX_STATUS_LENGTH - 1) \o Dot}

Fs(pre, ul) == [pre |-> pre, ul |-> ul]

Fieldsets ==
    {Fs(<<>>, Some(<<t>>)) : t \in StatusTexts}
    \cup {Fs(<<LabelText>>, Some(<<t>>)) : t \in {<<>>, Ready \o Dot}}
    \cup {Fs(<<t>>, None) : t \in {Ready \o Dot, Dot}}
    \cup {Fs(<<>>, Some(<<>>)), Fs(<<>>, None)}

Span(cf, t) == [clearfix |-> cf, nodes |-> <<t>>]

Infos ==
    {None, Some(<<>>), Some(<<Span(TRUE, Busy)>>), Some(<<Span(FALSE, <<" ">>)>>),
     Some(<<Span(FALSE, <<>>), Span(TRUE, Ready)>>)}

Kid(tag, color, h, sh) == [tag |-> tag, color |-> color, height |-> h, styleHeight |-> sh]

Img(h) == Kid("img", TRUE, Some(h), None)

Style(g, pcts) == Some([gradient |-> g, pcts |-> pcts])

Bar(style, kids) == Some([style |-> style, kids |-> kids])

Tank(clr, mb, bar) == [clr |-> clr, mb |-> mb, bar |-> bar]

BK == <<"B", "K">>

(* Tank items used alone and in sequences.                                 *)
MultiItems ==
    {Tank(<<BK>>, None, Bar(None, <<Img(<<"4", "5">>)>>)),
     Tank(<<BK>>, None, Bar(None, <<Img(<<"6", "0">>)>>)),
     Tank(<<BK>>, None, Bar(None, <<Img(<<"4", "5", "p", "x">>)>>)),
     Tank(<<<<>>>>, None, Bar(None, <<Img(<<"2", "0">>)>>)),
     Tank(<<<<"C">>>>, None, Bar(None, <<Kid("div", FALSE, Some(<<"3", "0">>), None)>>)),
     Tank(<<>>, Some(Waste), Bar(None, <<Img(<<"1", "0">>)>>)),
     Tank(<<>>, Some(Waste), Bar(None, <<Img(<<"3", "5">>)>>))}

(* Tank items used alone.                                                  *)
SingleItems ==
    {Tank(<<<<"M">>>>, None, Bar(None, <<Kid("img", FALSE, None, Some(34))>>)),
     Tank(<<<<"M">>>>, None, Bar(None, <<Kid("img", FALSE, None, Some(75))>>)),
     Tank(<<<<"Y">>>>, None, Bar(Style(TRUE, <<0, 345, 345, 1000>>), <<>>)),
     Tank(<<<<"Y">>>>, None, Bar(Style(TRUE, <<0, 355>>), <<Kid("div", FALSE, None, None)>>)),
     Tank(<<<<"Y">>>>, None, Bar(Style(TRUE, <<0, 1500>>), <<>>)),
     Tank(<<<<"Y">>>>, None, Bar(Style(TRUE, <<500>>), <<>>)),
     Tank(<<<<"Y">>>>, None, Bar(Style(FALSE, <<0, 340>>), <<>>)),
     Tank(<<<<"Y">>>>, None, Bar(Style(TRUE, <<0, 100>>), <<Img(<<"4", "5">>)>>)),
     Tank(<<<<"Y">>>>, None, Bar(Style(TRUE, <<0, 100>>), <<Img(<<"p", "x">>)>>)),
     Tank(<<BK>>, None, Bar(None, <<Img(<<"^2">>)>>)),
     Tank(<<BK>>, None, Bar(None, <<Img(<<"-", "5">>)>>)),
     Tank(<<BK>>, None, Bar(None, <<Img(<<"0">>)>>)),
     Tank(<<BK>>, None, Bar(None, <<Kid("div", FALSE, None, None)>>)),
     Tank(<<BK>>, None, Bar(None, <<>>)),
     Tank(<<BK>>, None, None),
     Tank(<<<<"b", "k">>>>, None, Bar(None, <<Img(<<"2", "5">>)>>)),
     Tank(<<<<"B", "l", "k">>>>, None, Bar(None, <<Img(<<"2", "5">>)>>)),
     Tank(<<<<" ">>, <<"C">>>>, None, Bar(None, <<Img(<<"1", "5">>)>>)),
     Tank(<<>>, None, Bar(None, <<Img(<<"2", "5">>)>>)),
     Tank(<<>>, Some(<<>>), Bar(None, <<Img(<<"1", "0">>)>>)),
     Tank(<<>>, Some(Waste), Bar(None, <<Img(<<"7", "0">>)>>)),
     Tank(<<BK>>, Some(Waste), Bar(None, <<Img(<<"1", "0">>)>>)),
     Tank(<<>>, Some(Waste), Bar(None, <<Kid("div", FALSE, Some(<<"1", "0">>), None)>>))}

RECURSIVE SeqsUpTo(_, _)
SeqsUpTo(S, n) ==
    IF n = 0 THEN {<<>>}
    ELSE LET shorter == SeqsUpTo(S, n - 1)
         IN  shorter \cup {Append(q, x) : q \in shorter, x \in S}

TankSeqs == {<<x>> : x \in SingleItems} \cup SeqsUpTo(MultiItems, MaxTanks)

T1 == <<"E", "T", "-", "1">>

T2 == <<"W", "F", "-", "2">>

Mac1 == <<"A", "A", ":", "B", "B", ":", "C", "C", ":", "0", "0", ":", "1", "1", ":", "2", "2">>

Mac2 == <<"d", "c", ":", "c", "d", ":", "2", "f", ":", "0", "c", ":", "9", "e", ":", "8", "9">>

BasePage ==
    [title |-> Some(T1), header |-> None, fs |-> None, scn |-> None, info |-> None,
     tanks |-> <<>>, macRest |-> Some(<<":", " ">> \o Mac1),
     net |-> None, wfd |-> None, text |-> <<>>]

StatusPages == {[BasePage EXCEPT !.fs = f, !.info = i] : f \in {None} \cup {Some(x) : x \in Fieldsets}, i \in Infos}

TankPages == {[BasePage EXCEPT !.tanks = ts] : ts \in TankSeqs}

MetaPages ==
    {[BasePage EXCEPT !.title = t, !.header = h, !.macRest = m] :
        t \in {None, Some(<<" ">>), Some(<<" ">> \o T2)},
        h \in {None, Some(T1), Some(<<" ">>)},
        m \in {None, Some(<<" ", ":", " ">> \o Mac2), Some(<<":">>)}}

ScannerPages ==
    {[BasePage EXCEPT !.scn = Some(Fs(<<>>, Some(<<t>>)))] : t \in {Dot, <<" ">>, Ready \o Dot}}

Row(k, v) == [key |-> Some(k), val |-> Some(v)]

Office == <<"O", "f", "f", "i", "c", "e">>

Den == <<"D", "e", "n">>

DevToken == <<"e", "p", "s", "o", "n", "0", "c", "9", "e", "8", "9">>

Ip1 == <<"1", "0", ".", "0", ".", "0", ".", "7">>

Ip2 == <<"2", "5", "6", ".", "1", ".", "1", ".", "1", " ", "1", "9", "2", ".", "1", "6", "8", ".", "1", ".", "2", "0">>

Tables ==
    {None, Some(<<>>),
     Some(<<Row(KeyDeviceName, Office)>>),
     Some(<<Row(KeyPrinterName, Den)>>),
     Some(<<Row(KeyPrinterName, Den), Row(KeyDeviceName, Office)>>),
     Some(<<Row(KeyDeviceName, <<" ">>), Row(KeyPrinterName, Den)>>),
     Some(<<Row(KeyDeviceName \o <<" ", ":">>, Office), Row(KeyDeviceName, Den)>>),
     Some(<<[key |-> Some(KeyDeviceName), val |-> None]>>),
     Some(<<Row(KeyMacAddress \o <<"nbsp", ":">>, Mac2)>>),
     Some(<<Row(KeyMacAddressLower, Mac1), Row(KeyIpAddress, Ip1)>>)}

FreeTexts ==
    {<<>>, DevToken, <<"x">> \o DevToken,
     DevToken \o <<"0", " ">> \o Upper(DevToken) \o <<" ">> \o Ip2 \o <<" ">> \o Mac2}

NetPages ==
    {[BasePage EXCEPT !.title = t, !.macRest = None, !.net = n, !.text = x] :
        t \in {None, Some(T1)}, n \in Tables, x \in FreeTexts}

WfdPages ==
    {[BasePage EXCEPT !.wfd = w] : w \in {Some(<<>>), Some(<<Row(KeyIpAddress, Ip1)>>)}}

Pages == StatusPages \cup TankPages \cup MetaPages \cup ScannerPages \cup NetPages \cup WfdPages


-----------------------------------------------------------------------------
(* parser.py: EpsonHTMLParser.parse.  The record holds the fields of the   *)
(* returned dict; raised = TRUE when parse() raises instead of returning.  *)
SourceLabels == {<<>>, <<"f", "i", "x">>}

P_source_echo_only(source, model) == Some(source)

(* parse(), line 87: "source": self.source or model                        *)
P_source(source, model) == IF source # <<>> THEN Some(source) ELSE model

P_parse(page, source) ==
    LET model   == P_parse_model(page)
        levels  == P_parse_inks_and_maintenance(page)
        network == P_parse_table_by_container_id(page.net)
        wifi    == P_parse_table_by_container_id(page.wfd)
    IN  IF levels.raised
        THEN [raised |-> TRUE, source |-> None, model |-> None, printer_status |-> None,
              scanner_status |-> None, inks |-> levels.inks,
              maintenance_box |-> levels.maintenance, network |-> EmptyTable,
              wifi_direct |-> None, name |-> None, mac_address |-> None,
              ip_address |-> None]
        ELSE [raised          |-> FALSE,
              source          |-> P_source(source, model),
              model           |-> model,
              printer_status  |-> P_printer_status(page),
              scanner_status  |-> P_scanner_status(page),
              inks            |-> levels.inks,
              maintenance_box |-> levels.maintenance,
              network         |-> network,
              wifi_direct     |-> IF wifi = EmptyTable THEN None ELSE Some(wifi),
              name            |-> IfTruthy(P_name(page)),
              mac_address     |-> IfTruthy(P_mac(page)),
              ip_address      |-> IfTruthy(P_ip(page))]

-----------------------------------------------------------------------------
(* api.py: EpsonWorkForceAPI as a state machine.  update() runs on an      *)
(* executor thread while the accessors are read from the event loop, so    *)
(* each assignment of update() is a step of its own; pc is the position of *)
(* the running update():                                                   *)
(*   "idle"   no update is running                                         *)
(*   "fetch"  in urlopen/read (line 166)                                   *)
(*   "avail"  self.soup is assigned, next is line 171                      *)
(*   "model"  self.available is assigned, next are lines 75-84             *)
(*   "mac"    next are lines 86-100                                        *)
FetchFaults == {"timeout", "refused", "http_status", "fault"}

UpdateCatchesURLErrorOnly(kind) == kind \in {"refused", "http_status"}

(* line 173: "except Exception" catches every fault of the fetch.          *)
UpdateCatches(kind) == TRUE

Init ==
    /\ soup = None
    /\ available = TRUE
    /\ model_ = None
    /\ mac_ = None
    /\ pc = "fetch"
    /\ constructed = FALSE
    /\ lastOk = TRUE
    /\ raisedToCaller = FALSE
    /\ lastRead = None
    /\ p_soup = None
    /\ p_source = <<>>
    /\ p_record = None
    /\ p_parses = 0
    /\ f_step = "none"
    /\ f_errors = None
    /\ f_conn = None
    /\ f_submitted = None
    /\ f_validated = {}
    /\ entries = {}
    /\ configured = {}
    /\ c_setup = FALSE
    /\ last_update_success = TRUE
    /\ entities = {}
    /\ e_page = None

(* update() is called (by the coordinator) on a constructed object.        *)
UpdateCall ==
    /\ constructed
    /\ pc = "idle"
    /\ pc' = "fetch"
    /\ raisedToCaller' = FALSE
    /\ lastRead' = None
    /\ UNCHANGED <<soup, available, model_, mac_, constructed, lastOk, parserVars, haVars>>

(* lines 165-170: the page arrives and self.soup is assigned.              *)
FetchOk(p) ==
    /\ pc = "fetch"
    /\ soup' = Some(p)
    /\ pc' = "avail"
    /\ lastRead' = None
    /\ UNCHANGED <<available, model_, mac_, constructed, lastOk, raisedToCaller,
                   parserVars, haVars>>

(* lines 173-174: the fetch raises; the handler clears the flag.           *)
FetchFail(kind) ==
    /\ pc = "fetch"
    /\ pc' = "idle"
    /\ IF UpdateCatches(kind)
       THEN available' = FALSE /\ raisedToCaller' = FALSE
       ELSE available' = available /\ raisedToCaller' = TRUE
    /\ lastOk' = FALSE
    /\ constructed' = TRUE
    /\ lastRead' = None
    /\ UNCHANGED <<soup, model_, mac_, parserVars, haVars>>

(* line 171 *)
SetAvailableTrue == available' = TRUE

SetAvailable ==
    /\ pc = "avail"
    /\ SetAvailableTrue
    /\ pc' = "model"
    /\ lastRead' = None
    /\ UNCHANGED <<soup, model_, mac_, constructed, lastOk, raisedToCaller, parserVars, haVars>>

(* line 172, first half of _extract_device_info *)
ExtractModel ==
    /\ pc = "model"
    /\ model_' = A_extract_model(Get(soup), model_)
    /\ pc' = "mac"
    /\ lastRead' = None
    /\ UNCHANGED <<soup, available, mac_, constructed, lastOk, raisedToCaller, parserVars, haVars>>

(* line 172, second half of _extract_device_info; update() returns.        *)
ExtractMac ==
    /\ pc = "mac"
    /\ mac_' = A_extract_mac(Get(soup), mac_)
    /\ pc' = "idle"
    /\ lastOk' = TRUE
    /\ constructed' = TRUE
    /\ lastRead' = None
    /\ UNCHANGED <<soup, available, model_, raisedToCaller, parserVars, haVars>>

(* The accessors the entities read.                                        *)
SensorArgs ==
    {Some("printer_status"), Some("black"), Some("cyan"), Some("clean"),
     Some("not_a_real_sensor"), None}

Read(op, arg, ret) == Some([op |-> op, arg |-> arg, ret |-> ret, pc |-> pc])

GetSensorValue(sensor) ==
    /\ constructed
    /\ lastRead' = Read("get_sensor_value", sensor, A_get_sensor_value(soup, sensor))
    /\ UNCHANGED <<soup, available, model_, mac_, pc, constructed, lastOk,
                   raisedToCaller, parserVars, haVars>>

ReadModel ==
    /\ constructed
    /\ lastRead' = Read("model", None, A_model(model_))
    /\ UNCHANGED <<soup, available, model_, mac_, pc, constructed, lastOk,
                   raisedToCaller, parserVars, haVars>>

ReadMacAddress ==
    /\ constructed
    /\ lastRead' = Read("mac_address", None, A_mac_address(mac_))
    /\ UNCHANGED <<soup, available, model_, mac_, pc, constructed, lastOk,
                   raisedToCaller, parserVars, haVars>>

Next ==
    \/ UpdateCall
    \/ \E p \in Pages : FetchOk(p)
    \/ \E kind \in FetchFaults : FetchFail(kind)
    \/ SetAvailable
    \/ ExtractModel
    \/ ExtractMac
    \/ \E sensor \in SensorArgs : GetSensorValue(sensor)
    \/ ReadModel
    \/ ReadMacAddress

Spec == Init /\ [][Next]_vars

-----------------------------------------------------------------------------
(* One device response handed to both components: an EpsonWorkForceAPI is  *)
(* constructed against a device that serves page p (its first update()     *)
(* runs to completion inside __init__, lines 24-31 and 162-172), and an    *)
(* EpsonHTMLParser is constructed on the same markup (lines 73-75).        *)
NewFromPage(p, label) ==
    /\ ~constructed
    /\ IsNone(p_soup)
    /\ soup' = Some(p)
    /\ SetAvailableTrue
    /\ model_' = A_extract_model(p, None)
    /\ mac_' = A_extract_mac(p, None)
    /\ pc' = "idle"
    /\ constructed' = TRUE
    /\ lastOk' = TRUE
    /\ raisedToCaller' = FALSE
    /\ lastRead' = None
    /\ p_soup' = Some(p)
    /\ p_source' = label
    /\ p_record' = None
    /\ p_parses' = 0
    /\ UNCHANGED haVars

(* The number of parse() calls followed on one parser object.              *)
MaxParses == 2

ParserParseConsuming ==
    /\ ~IsNone(p_soup)
    /\ p_parses < MaxParses
    /\ p_record' = Some(P_parse(Get(p_soup), p_source))
    /\ p_soup' = Some([Get(p_soup) EXCEPT !.tanks = <<>>])
    /\ p_parses' = p_parses + 1
    /\ UNCHANGED <<p_source, apiVars, haVars>>

(* EpsonHTMLParser.parse(): it reads self.soup and self.source and writes  *)
(* no attribute; p_parses counts the calls.                                *)
ParserParse ==
    /\ ~IsNone(p_soup)
    /\ p_parses < MaxParses
    /\ p_record' = Some(P_parse(Get(p_soup), p_source))
    /\ p_parses' = p_parses + 1
    /\ UNCHANGED <<p_soup, p_source, apiVars, haVars>>

PageNext ==
    \/ \E p \in Pages, label \in SourceLabels : NewFromPage(p, label)
    \/ ParserParse
    \/ \E sensor \in SensorArgs : GetSensorValue(sensor)
    \/ ReadModel
    \/ ReadMacAddress

PageSpec == Init /\ [][PageNext]_vars

-----------------------------------------------------------------------------
(* Home Assistant glue: the config flow (config_flow.py), the entry setup  *)
(* (__init__.py, sensor.py) and the polling coordinator (sensor.py).       *)
(* Hosts, paths and names are opaque tokens.                               *)
Hosts == {"10.0.0.7", "10.0.0.8"}

DefaultPath == "/PRESENTATION/HTML/TOP/PRTINFO.HTML"

DeviceNames == {"Office", "Den"}

(* The pages the devices of this part serve.                               *)
HaPages ==
    {BasePage,
     [BasePage EXCEPT
         !.fs = Some(Fs(<<>>, Some(<<Ready \o Dot>>))),
         !.tanks = <<Tank(<<BK>>, None, Bar(None, <<Img(<<"4", "5">>)>>)),
                     Tank(<<>>, Some(Waste), Bar(None, <<Img(<<"1", "0">>)>>))>>],
     [BasePage EXCEPT
         !.title = None, !.macRest = None,
         !.tanks = <<Tank(<<<<"C">>>>, None, Bar(None, <<Img(<<"1", "5">>)>>))>>],
     [BasePage EXCEPT
         !.info = Some(<<Span(TRUE, Busy)>>),
         !.tanks = <<Tank(<<BK>>, None, Bar(None, <<Img(<<"p", "x">>)>>))>>]}

(* What one request to a device yields: a page or a fault of the fetch.    *)
Served(p) == [kind |-> "page", page |-> p]

Fault(k) == [kind |-> k, page |-> BasePage]

DeviceOutcomes == {Served(p) : p \in HaPages} \cup {Fault(k) : k \in FetchFaults}

(* The fields of an EpsonWorkForceAPI object as one value.                 *)
ApiObject(sp, av, mo, ma) == [soup |-> sp, available |-> av, model_ |-> mo, mac_ |-> ma]

(* EpsonWorkForceAPI.update() run to completion on object o.               *)
A_update(o, outcome) ==
    IF outcome.kind = "page"
    THEN ApiObject(Some(outcome.page), TRUE,
                   A_extract_model(outcome.page, o.model_),
                   A_extract_mac(outcome.page, o.mac_))
    ELSE [o EXCEPT !.available = FALSE]

(* EpsonWorkForceAPI(host, path): the fields are set and update() runs.    *)
A_new(outcome) == A_update(ApiObject(None, TRUE, None, None), outcome)

(* The attributes an EpsonWorkForceAPI object has: those assigned in       *)
(* __init__ and the methods and properties of the class.                   *)
ApiAttributes ==
    {"_resource", "available", "soup", "_model", "_mac_address", "update",
     "get_sensor_value", "model", "mac_address", "_extract_device_info",
     "_clean_status", "_get_fieldset_status", "_get_information_div_status",
     "_get_printer_status"}

NoFault == "returned"

Returned(info) == [raised |-> NoFault, info |-> Some(info)]

Raised(exc) == [raised |-> exc, info |-> None]

(* validate_input(data) against a device that answers with outcome.        *)
validate_input(data, outcome) ==
    LET api == A_new(outcome)
    IN  IF ~api.available THEN Raised("CannotConnect")
        ELSE IF "name" \notin ApiAttributes THEN Raised("AttributeError")
        ELSE Returned([title |-> data.host, name |-> "api.name",
                       model |-> A_model(api.model_),
                       mac |-> A_mac_address(api.mac_)])

FlowErrorBaseAlwaysUnknown(raised) == "unknown"

(* async_step_user, lines 76-81: the error shown for a validation fault.   *)
FlowErrorBase(raised) ==
    IF raised = "CannotConnect" THEN "cannot_connect" ELSE "unknown"

HaInit ==
    /\ soup = None
    /\ available = TRUE
    /\ model_ = None
    /\ mac_ = None
    /\ pc = "fetch"
    /\ constructed = FALSE
    /\ lastOk = TRUE
    /\ raisedToCaller = FALSE
    /\ lastRead = None
    /\ p_soup = None
    /\ p_source = <<>>
    /\ p_record = None
    /\ p_parses = 0
    /\ f_step = "none"
    /\ f_errors = None
    /\ f_conn = None
    /\ f_submitted = None
    /\ f_validated = {}
    /\ entries = {}
    /\ configured \in SUBSET Hosts
    /\ c_setup = FALSE
    /\ last_update_success = TRUE
    /\ entities = {}
    /\ e_page = None

(* What the last submission of the user step was and how it went.          *)
Submission(data, outcome, res) ==
    Some([host |-> data.host,
          reachable |-> outcome.kind = "page",
          configuredBefore |-> data.host \in configured,
          raised |-> res.raised])

(* async_step_user(user_input): None shows the form; a submission is       *)
(* validated against the device, which answers with outcome.               *)
async_step_user(user_input, outcome) ==
    IF IsNone(user_input)
    THEN /\ f_step' = "user"
         /\ f_errors' = None
         /\ f_conn' = None
         /\ f_submitted' = None
         /\ UNCHANGED <<f_validated, entries, configured>>
    ELSE LET data == Get(user_input)
             res == validate_input(data, outcome)
         IN  /\ f_submitted' = Submission(data, outcome, res)
             /\ UNCHANGED <<entries, configured>>
             /\ IF res.raised # NoFault
                THEN /\ f_errors' = Some(FlowErrorBase(res.raised))
                     /\ f_step' = "user"
                     /\ UNCHANGED <<f_conn, f_validated>>
                ELSE /\ f_validated' = f_validated \cup {data.host}
                     /\ f_errors' = None
                     /\ IF data.host \in configured
                        THEN f_step' = "aborted" /\ UNCHANGED f_conn
                        ELSE /\ f_conn' = Some([host |-> data.host, path |-> data.path,
                                                info |-> Get(res.info)])
                             /\ f_step' = "device_name"

(* async_step_device_name(user_input) with a submitted name: the entry.    *)
async_step_device_name(user_input) ==
    LET conn == Get(f_conn)
        device_name == Get(user_input).name
    IN  /\ entries' = entries \cup
                        {[title |-> device_name,
                          data |-> [host |-> conn.host, path |-> conn.path,
                                    name |-> device_name]]}
        /\ configured' = configured \cup {conn.host}
        /\ f_step' = "created"
        /\ f_submitted' = None
        /\ UNCHANGED <<f_errors, f_conn, f_validated>>

(* The user opens the "add integration" dialog: a flow starts and          *)
(* async_step_user(None) shows the user form.                              *)
FlowInit ==
    /\ async_step_user(None, Fault("fault"))
    /\ UNCHANGED <<apiVars, parserVars, coordVars>>

(* The user submits the form on display: the flow manager calls the step   *)
(* of that form with the input.                                            *)
FlowConfigure(host, name, outcome) ==
    /\ f_step \in {"user", "device_name"}
    /\ IF f_step = "user"
       THEN async_step_user(Some([host |-> host, path |-> DefaultPath]), outcome)
       ELSE async_step_device_name(Some([name |-> name]))
    /\ UNCHANGED <<apiVars, parserVars, coordVars>>

(* SENSOR_TYPES: the keys of the entity descriptions.                      *)
SENSOR_TYPES ==
    {"BK", "PB", "GY", "M", "C", "Y", "LC", "LM", "clean", "printer_status",
     "scanner_status", "ip_address", "signal_strength", "ssid",
     "wifi_direct_connection_method", "total_pages", "bw_pages", "color_pages",
     "bw_scans", "color_scans", "first_print_date"}

(* _detect_available_sensors(api): the keys whose read gives a value.      *)
detect_available_sensors(sp) ==
    {key \in SENSOR_TYPES :
        LET value == A_get_sensor_value(sp, Some(key))
        IN  value # RNone /\ value # RStr(Unknown)}

UpdateDataAlwaysTrue(av) == TRUE

(* _async_update_data after api.update(): TRUE when it returns True, FALSE *)
(* when it raises UpdateFailed; the coordinator stores this outcome in     *)
(* last_update_success.                                                    *)
async_update_data(av) == av

(* EpsonPrinterCartridge.available                                         *)
EntityAvailable(lus, av) == lus /\ av

ThisApi == ApiObject(soup, available, model_, mac_)

WriteApi(o) ==
    /\ soup' = o.soup
    /\ available' = o.available
    /\ model_' = o.model_
    /\ mac_' = o.mac_
    /\ pc' = "idle"
    /\ constructed' = TRUE

(* A stored config entry for host is set up: __init__.async_setup_entry    *)
(* constructs the API object (first answers it) and forwards to            *)
(* sensor.async_setup_entry, whose first refresh polls again (second       *)
(* answers); a failed first refresh leaves the entry not ready.            *)
SetupEntry(host, first, second) ==
    /\ host \in configured
    /\ ~c_setup
    /\ LET o == A_update(A_new(first), second)
           ok == async_update_data(o.available)
       IN  /\ WriteApi(o)
           /\ lastOk' = (second.kind = "page")
           /\ last_update_success' = ok
           /\ c_setup' = ok
           /\ entities' = IF ok THEN detect_available_sensors(o.soup) ELSE {}
           /\ e_page' = IF ok THEN o.soup ELSE None
    /\ UNCHANGED <<raisedToCaller, lastRead, parserVars, flowVars>>

(* One poll cycle of the coordinator: _async_update_data runs api.update() *)
(* and the coordinator records whether it returned.                        *)
Poll(outcome) ==
    /\ c_setup
    /\ LET o == A_update(ThisApi, outcome)
       IN  /\ WriteApi(o)
           /\ lastOk' = (outcome.kind = "page")
           /\ last_update_success' = async_update_data(o.available)
    /\ UNCHANGED <<c_setup, entities, e_page, raisedToCaller, lastRead, parserVars,
                   flowVars>>

HaNext ==
    \/ FlowInit
    \/ \E host \in Hosts, name \in DeviceNames, outcome \in DeviceOutcomes :
          FlowConfigure(host, name, outcome)
    \/ \E host \in Hosts, first, second \in DeviceOutcomes : SetupEntry(host, first, second)
    \/ \E outcome \in DeviceOutcomes : Poll(outcome)

HaSpec == HaInit /\ [][HaNext]_vars

-----------------------------------------------------------------------------
(* Claims.                                                                 *)
Idle == constructed /\ pc = "idle"

ReadIs(op, arg) == ~IsNone(lastRead) /\ Get(lastRead).op = op /\ Get(lastRead).arg = arg

ReadRet == Get(lastRead).ret

InkArgs == {Some("black"), Some("cyan"), Some("clean")}

(* C1: whenever the most recent update failed (available is False), every  *)
(* field read returns its default: model the fallback label, the printer   *)
(* status "Unknown", the MAC address None, the ink levels None.            *)
C1_DefaultsAfterFailedUpdate ==
    (Idle /\ ~available /\ ~IsNone(lastRead)) =>
        /\ ReadIs("model", None) => ReadRet = RStr(FallbackModel)
        /\ ReadIs("mac_address", None) => ReadRet = RNone
        /\ ReadIs("get_sensor_value", Some("printer_status")) => ReadRet = RStr(Unknown)
        /\ \A a \in InkArgs : ReadIs("get_sensor_value", a) => ReadRet = RNone

(* C2: update() never lets an exception reach its caller, and when no      *)
(* update is running available is True iff the most recent update          *)
(* succeeded.                                                              *)
C2_AvailableIffLastUpdateSucceeded ==
    /\ ~raisedToCaller
    /\ Idle => (available <=> lastOk)

C2_Witness == Idle /\ ~lastOk /\ ~available /\ ~IsNone(soup)

Parsed == ~IsNone(p_record)

Rec == Get(p_record)

Pg == Get(p_soup)

Within0To100(n) == n >= 0 /\ n <= 100

(* C3: every value of the record's inks mapping, and maintenance_box when  *)
(* present, is an integer in 0..100.                                       *)
C3_PercentsWithin0To100 ==
    (Parsed /\ ~Rec.raised) =>
        /\ \A k \in DOMAIN Rec.inks : Within0To100(Rec.inks[k])
        /\ ~IsNone(Rec.maintenance_box) => Within0To100(Get(Rec.maintenance_box))

Clamp100(n) == IF n < 0 THEN 0 ELSE IF n > 100 THEN 100 ELSE n

TankIndexes == 1..Len(Pg.tanks)

(* The tank item has an image in its inner bar whose height attribute is a *)
(* non-negative integer without units.                                     *)
HasPlainHeight(li) ==
    /\ ~IsNone(li.bar)
    /\ ~IsNone(BarImg(Get(li.bar)))
    /\ ~IsNone(Get(BarImg(Get(li.bar))).height)
    /\ AllAscii(Get(Get(BarImg(Get(li.bar))).height))

PlainHeight(li) == DecimalValue(Get(Get(BarImg(Get(li.bar))).height))

(* C4: a tank item whose fill is an inline height attribute h gives the    *)
(* percent clamp(2*h, 0, 100).                                             *)
C4_HeightGivesClampedDouble ==
    Parsed =>
        \A i \in TankIndexes :
            HasPlainHeight(Pg.tanks[i]) =>
                TankPct(Pg.tanks[i]) = Ret(Some(Clamp100(2 * PlainHeight(Pg.tanks[i]))))

NoPixelHeight(li) == ~P_li_bar_percent(li).raised /\ IsNone(P_li_bar_percent(li).v)

GradientTokens(li) ==
    IF ~IsNone(li.bar) /\ ~IsNone(Get(li.bar).style) /\ Get(Get(li.bar).style).gradient
    THEN Some(Get(Get(li.bar).style).pcts)
    ELSE None

(* What a one-tank page must report for its tank: the pair <<inks,         *)
(* maintenance_box>> when the item's level is v.                           *)
OneTankLevels(li, v) ==
    IF IsNone(v) THEN <<EmptyInks, None>>
    ELSE IF ~IsNone(li.mb) THEN <<EmptyInks, v>>
    ELSE IF ~IsNone(FirstLabel(li.clr)) THEN <<PutInk(EmptyInks, Get(FirstLabel(li.clr)), Get(v)), None>>
    ELSE <<EmptyInks, None>>

(* C5: on a tank item without a pixel height whose inner bar style is a    *)
(* linear-gradient with percent tokens [p0, p1, ...], the percent is       *)
(* clamp(round(p1), 0, 100) when there are at least two tokens and absent  *)
(* with fewer; an item with a pixel height reports that height's level,    *)
(* whatever its gradient says.  round is Python's (halves to even).        *)
C5_GradientSecondStop ==
    Parsed =>
        \A i \in TankIndexes :
            LET li   == Pg.tanks[i]
                toks == GradientTokens(li)
                want == IF Len(Get(toks)) >= 2
                        THEN Some(Clamp100(PyRoundTenths(Get(toks)[2])))
                        ELSE None
            IN  /\ (NoPixelHeight(li) /\ ~IsNone(toks)) =>
                      /\ TankPct(li) = Ret(want)
                      /\ (Len(Pg.tanks) = 1 /\ ~Rec.raised) =>
                            <<Rec.inks, Rec.maintenance_box>> = OneTankLevels(li, want)
                /\ (~P_li_bar_percent(li).raised /\ ~IsNone(P_li_bar_percent(li).v)) =>
                      TankPct(li) = P_li_bar_percent(li)

C5_Witness ==
    /\ Parsed
    /\ ~Rec.raised
    /\ Len(Pg.tanks) = 1
    /\ NoPixelHeight(Pg.tanks[1])
    /\ GradientTokens(Pg.tanks[1]) = Some(<<0, 1500>>)
    /\ Rec.inks = PutInk(EmptyInks, <<"Y">>, 100)

PrimaryText(page) == GetTextStrip(<<" ">>, FieldsetNodes(Get(page.fs)))

ListText(page) == GetTextStrip(<<>>, Get(Get(page.fs).ul))

HasList(page) == ~IsNone(page.fs) /\ ~IsNone(Get(page.fs).ul)

StatusRead == ReadIs("get_sensor_value", Some("printer_status")) /\ ~IsNone(soup)

(* The fallback container holds a span with text.                          *)
FallbackHasText(page) ==
    /\ ~IsNone(page.info)
    /\ Get(page.info) # <<>>
    /\ GetTextStrip(<<>>, Head(Get(page.info)).nodes) # <<>>

(* C6 as stated: when the primary container yields non-empty text and the  *)
(* fallback container is present too, the status is the primary one and    *)
(* the fallback is ignored.                                                *)
C6_PrimaryTextWins ==
    /\ (Parsed /\ ~Rec.raised /\ ~IsNone(Pg.fs) /\ FallbackHasText(Pg) /\ PrimaryText(Pg) # <<>>) =>
          Rec.printer_status = P_clean_status(PrimaryText(Pg))
    /\ (StatusRead /\ HasList(Get(soup)) /\ FallbackHasText(Get(soup))
          /\ ListText(Get(soup)) # <<>>) =>
          /\ Truthy(A_clean_status(ListText(Get(soup))))
          /\ ReadRet = RStr(Get(A_clean_status(ListText(Get(soup)))))

(* C6 amended: the status is the primary container's whenever its cleaned  *)
(* status is non-empty; the fallback container decides only when the       *)
(* primary is missing or cleans to nothing.                                *)
C6_PrimaryStatusWins ==
    /\ (Parsed /\ ~Rec.raised) =>
          LET prim == IF IsNone(Pg.fs) THEN None ELSE P_clean_status(PrimaryText(Pg))
          IN  IF ~IsNone(prim) THEN Rec.printer_status = prim
              ELSE Rec.printer_status = P_fallback_status(Pg)
    /\ StatusRead =>
          LET prim == IF HasList(Get(soup)) THEN A_clean_status(ListText(Get(soup))) ELSE None
              fall == A_get_information_div_status(Get(soup))
          IN  IF Truthy(prim) THEN ReadRet = RStr(Get(prim))
              ELSE IF Truthy(fall) THEN ReadRet = RStr(Get(fall))
              ELSE ReadRet = RStr(Unknown)

C6_Witness ==
    /\ Parsed
    /\ Pg.fs = Some(Fs(<<>>, Some(<<Ready \o Dot>>)))
    /\ Pg.info = Some(<<Span(TRUE, Busy)>>)
    /\ Rec.printer_status = Some(Ready)
    /\ StatusRead
    /\ ReadRet = RStr(Ready)

(* The status a 40-character threshold gives for a trimmed, label-free     *)
(* text.                                                                   *)
Cleaned40(t) == IF Len(t) <= 40 /\ EndsWithPeriod(t) THEN DropLast(t) ELSE t

PlainStatus(t) == Len(t) >= 2 /\ LabelEnd(t) = 1

(* C7: the trailing period is stripped from a status of at most 40         *)
(* characters and kept on a longer one, by the parser and by               *)
(* get_sensor_value("printer_status") alike.                               *)
C7_Threshold40Alike ==
    /\ (Parsed /\ ~Rec.raised /\ ~IsNone(Pg.fs) /\ PlainStatus(PrimaryText(Pg))) =>
          Rec.printer_status = Some(Cleaned40(PrimaryText(Pg)))
    /\ (StatusRead /\ HasList(Get(soup)) /\ PlainStatus(ListText(Get(soup)))) =>
          ReadRet = RStr(Cleaned40(ListText(Get(soup))))

EndsWithTwoPeriods(t) == Len(t) >= 3 /\ t[Len(t)] = "." /\ t[Len(t) - 1] = "."

(* C8: a status ending in two or more periods is returned with all its     *)
(* periods.                                                                *)
C8_OnlySinglePeriodStripped ==
    /\ (Parsed /\ ~Rec.raised /\ ~IsNone(Pg.fs) /\ PlainStatus(PrimaryText(Pg))
          /\ EndsWithTwoPeriods(PrimaryText(Pg))) =>
          Rec.printer_status = Some(PrimaryText(Pg))
    /\ (StatusRead /\ HasList(Get(soup)) /\ EndsWithTwoPeriods(ListText(Get(soup)))) =>
          ReadRet = RStr(ListText(Get(soup)))

(* Neither structure gives the parser any text.                            *)
ParserNoText(page) ==
    /\ IsNone(page.fs) \/ PrimaryText(page) = <<>>
    /\ \/ IsNone(page.info)
       \/ Get(page.info) = <<>>
       \/ GetTextStrip(<<>>, Head(Get(page.info)).nodes) = <<>>

(* Neither structure gives get_sensor_value any text.                      *)
ApiNoText(page) ==
    /\ ~HasList(page) \/ ListText(page) = <<>>
    /\ \/ IsNone(page.info)
       \/ Get(page.info) = <<>>
       \/ \A i \in 1..Len(Get(page.info)) : GetTextStrip(<<>>, Get(page.info)[i].nodes) = <<>>

(* C9: a status slot is never the empty string; it is absent when neither  *)
(* structure yields text, parse() does not raise on that account, and      *)
(* get_sensor_value("printer_status") then returns "Unknown".              *)
C9_EmptyStatusIsAbsent ==
    /\ Parsed =>
          /\ Rec.printer_status # Some(<<>>)
          /\ Rec.scanner_status # Some(<<>>)
          /\ ParserNoText(Pg) => (IsNone(Rec.printer_status) /\ (Pg.tanks = <<>> => ~Rec.raised))
          /\ (~IsNone(Pg.scn) /\ GetTextStrip(<<" ">>, FieldsetNodes(Get(Pg.scn))) = <<>>) =>
                IsNone(Rec.scanner_status)
    /\ StatusRead =>
          /\ ReadRet.t = "str"
          /\ ReadRet.s # <<>>
          /\ ApiNoText(Get(soup)) => ReadRet = RStr(Unknown)

C9_Witness ==
    /\ Parsed
    /\ ~Rec.raised
    /\ Pg.fs = Some(Fs(<<>>, Some(<<<<" ", " ">>>>)))
    /\ Pg.info = Some(<<Span(FALSE, <<" ">>)>>)
    /\ IsNone(Rec.printer_status)
    /\ StatusRead
    /\ ReadRet = RStr(Unknown)

RemoveAt(q, i) == SubSeq(q, 1, i - 1) \o SubSeq(q, i + 1, Len(q))

Without(page, i) == [page EXCEPT !.tanks = RemoveAt(page.tanks, i)]

(* No encoding of the item's level is readable.                            *)
UnreadableLevel(li) ==
    \/ IsNone(li.bar)
    \/ /\ \A k \in 1..Len(Get(li.bar).kids) :
             /\ IsNone(Get(li.bar).kids[k].height) \/ ~AllAscii(Get(Get(li.bar).kids[k].height))
             /\ IsNone(Get(li.bar).kids[k].styleHeight)
       /\ IsNone(GradientTokens(li)) \/ Len(Get(GradientTokens(li))) < 2

EmptyColourName(li) == li.clr # <<>> /\ Head(li.clr) = <<>>

Malformed(li) == UnreadableLevel(li) \/ EmptyColourName(li)

(* The sensor reads a channel other than the one the item is marked with.  *)
OtherChannel(sensor, li) ==
    IF LEVEL_SENSOR_TO_DIV[sensor].div = "mbicn" THEN IsNone(li.mb)
    ELSE li.clr = <<>> \/ Head(li.clr) # LEVEL_SENSOR_TO_DIV[sensor].text

(* C10: extraction never raises, and a malformed tank item leaves every    *)
(* other channel's level as it would be without that item on the page.     *)
C10_MalformedElementIsolated ==
    /\ Parsed => ~Rec.raised
    /\ (Parsed /\ ~Rec.raised) =>
          \A i \in TankIndexes :
              Malformed(Pg.tanks[i]) =>
                  LET other == P_parse(Without(Pg, i), p_source)
                  IN  /\ \A k \in (DOMAIN Rec.inks \cup DOMAIN other.inks)
                                    \ {Upper(Strip(c)) : c \in {Pg.tanks[i].clr[j] : j \in 1..Len(Pg.tanks[i].clr)}} :
                             k \in DOMAIN Rec.inks /\ k \in DOMAIN other.inks /\ Rec.inks[k] = other.inks[k]
                      /\ IsNone(Pg.tanks[i].mb) => Rec.maintenance_box = other.maintenance_box
                      /\ Rec.printer_status = other.printer_status
                      /\ Rec.model = other.model
    /\ \A a \in InkArgs :
          (ReadIs("get_sensor_value", a) /\ ~IsNone(soup)) =>
              \A i \in 1..Len(Get(soup).tanks) :
                  (Malformed(Get(soup).tanks[i]) /\ OtherChannel(Get(a), Get(soup).tanks[i])) =>
                      ReadRet = A_get_sensor_value(Some(Without(Get(soup), i)), a)

(* The item has no inner bar, or the bar has no child element, or its      *)
(* first child has no height attribute or one that is not an integer.      *)
NoIntegerHeight(li) ==
    \/ IsNone(li.bar)
    \/ Get(li.bar).kids = <<>>
    \/ IsNone(Head(Get(li.bar).kids).height)
    \/ IsNone(PyInt(Get(Head(Get(li.bar).kids).height)))

(* C11: a tank item with no numeric height, no style height and no valid   *)
(* gradient (or with no inner bar at all) yields no level for its channel: *)
(* parse() returns, the item adds nothing to the record, and               *)
(* get_sensor_value for that channel returns None, not 0.                  *)
C11_UnreadableLevelIsAbsent ==
    /\ Parsed =>
          \A i \in TankIndexes :
              UnreadableLevel(Pg.tanks[i]) =>
                  /\ ~Rec.raised
                  /\ TankPct(Pg.tanks[i]) = Ret(None)
                  /\ Len(Pg.tanks) = 1 => (Rec.inks = EmptyInks /\ IsNone(Rec.maintenance_box))
    /\ \A a \in InkArgs :
          (ReadIs("get_sensor_value", a) /\ ~IsNone(soup) /\ Len(Get(soup).tanks) = 1
             /\ NoIntegerHeight(Get(soup).tanks[1])) =>
              ReadRet = RNone

UnknownArgs == {Some("not_a_real_sensor"), None}

LacksHeight(li) ==
    \/ IsNone(li.bar)
    \/ Get(li.bar).kids # <<>> /\ IsNone(Head(Get(li.bar).kids).height)

(* C13: get_sensor_value returns the integer 0 for an unrecognised name,   *)
(* for None, for an ink sensor when no page is loaded, and for an ink      *)
(* sensor whose tank item lacks the height attribute or the inner bar.     *)
C13_ZeroForAbsentReading ==
    /\ \A a \in UnknownArgs : ReadIs("get_sensor_value", a) => ReadRet = RInt(0)
    /\ \A a \in InkArgs :
          /\ (ReadIs("get_sensor_value", a) /\ IsNone(soup)) => ReadRet = RInt(0)
          /\ (ReadIs("get_sensor_value", a) /\ ~IsNone(soup) /\ Len(Get(soup).tanks) = 1
                /\ ~OtherChannel(Get(a), Get(soup).tanks[1]) /\ LacksHeight(Get(soup).tanks[1])) =>
                ReadRet = RInt(0)

(* The item has a level the parser can read.                               *)
Readable(li) == ~TankPct(li).raised /\ ~IsNone(TankPct(li).v)

(* C14: a tank item with a readable level goes to maintenance_box when it  *)
(* carries the waste marker, otherwise to inks[code] when it carries a     *)
(* colour-name code, otherwise nowhere: a waste-marked item leaves inks as *)
(* they are without it, an item with neither marker leaves inks and        *)
(* maintenance_box as they are without it, and a colour item leaves        *)
(* maintenance_box and every other code as they are without it.            *)
C14_OneDestinationPerItem ==
    (Parsed /\ ~Rec.raised) =>
        \A i \in TankIndexes :
            LET li    == Pg.tanks[i]
                other == P_parse(Without(Pg, i), p_source)
                label == FirstLabel(li.clr)
            IN  /\ ~IsNone(li.mb) => Rec.inks = other.inks
                /\ (IsNone(li.mb) /\ IsNone(label)) =>
                      (Rec.inks = other.inks /\ Rec.maintenance_box = other.maintenance_box)
                /\ (IsNone(li.mb) /\ ~IsNone(label)) =>
                      /\ Rec.maintenance_box = other.maintenance_box
                      /\ DOMAIN other.inks \ {Get(label)} = DOMAIN Rec.inks \ {Get(label)}
                      /\ \A k \in DOMAIN Rec.inks \ {Get(label)} : Rec.inks[k] = other.inks[k]
                /\ Len(Pg.tanks) = 1 =>
                      <<Rec.inks, Rec.maintenance_box>> = OneTankLevels(li, TankPct(li).v)

C14_Witness ==
    /\ Parsed
    /\ Pg.tanks = <<Tank(<<BK>>, Some(Waste), Bar(None, <<Img(<<"1", "0">>)>>))>>
    /\ Rec.inks = EmptyInks
    /\ Rec.maintenance_box = Some(20)

(* C15: every key of the record's inks mapping is an uppercase channel     *)
(* code of one or two letters.                                             *)
C15_InkKeysAreChannelCodes ==
    (Parsed /\ ~Rec.raised) =>
        \A k \in DOMAIN Rec.inks :
            /\ Len(k) \in {1, 2}
            /\ \A j \in 1..Len(k) : k[j] \in UpperLetters

LastOf(S) == CHOOSE i \in S : \A j \in S : j <= i

(* The items of the page that report a level for the code k.               *)
InkWriters(page, k) ==
    {i \in 1..Len(page.tanks) :
        /\ IsNone(page.tanks[i].mb)
        /\ FirstLabel(page.tanks[i].clr) = Some(k)
        /\ Readable(page.tanks[i])}

WasteWriters(page) ==
    {i \in 1..Len(page.tanks) : ~IsNone(page.tanks[i].mb) /\ Readable(page.tanks[i])}

(* The codes on the colour-name elements of the page.                      *)
Labels(page) ==
    {Get(FirstLabel(page.tanks[i].clr)) :
        i \in {j \in 1..Len(page.tanks) : ~IsNone(FirstLabel(page.tanks[j].clr))}}

(* The record holds, for every code and for the waste tank, the level of   *)
(* the last item of the page that reports it.                              *)
RecordLastWins ==
    (Parsed /\ ~Rec.raised) =>
        /\ DOMAIN Rec.inks = {k \in Labels(Pg) : InkWriters(Pg, k) # {}}
        /\ \A k \in DOMAIN Rec.inks :
              Rec.inks[k] = Get(TankPct(Pg.tanks[LastOf(InkWriters(Pg, k))]).v)
        /\ Rec.maintenance_box =
              IF WasteWriters(Pg) = {} THEN None
              ELSE TankPct(Pg.tanks[LastOf(WasteWriters(Pg))]).v

(* The items whose marker div carries the text get_sensor_value looks for. *)
ApiMatches(page, sensor) ==
    {i \in 1..Len(page.tanks) :
        LET div == MarkerDiv(page.tanks[i], LEVEL_SENSOR_TO_DIV[sensor].div)
        IN  /\ ~IsNone(div)
            /\ Get(div) # <<>>
            /\ (LEVEL_SENSOR_TO_DIV[sensor].text = Get(div)
                  \/ LEVEL_SENSOR_TO_DIV[sensor].text = Waste)}

NoEmptyMarker(page, sensor) ==
    \A i \in 1..Len(page.tanks) :
        MarkerDiv(page.tanks[i], LEVEL_SENSOR_TO_DIV[sensor].div) # Some(<<>>)

(* A read of an ink sensor whose channel is on more than one item.         *)
DuplicateRead(a) ==
    /\ ReadIs("get_sensor_value", a)
    /\ ~IsNone(soup)
    /\ NoEmptyMarker(Get(soup), Get(a))
    /\ Cardinality(ApiMatches(Get(soup), Get(a))) >= 2

LevelOf(page, i) ==
    IF IsNone(A_tank_level(page.tanks[i])) THEN RNone
    ELSE RInt(Get(A_tank_level(page.tanks[i])))

(* C16 as stated: the last item of a code decides, in the record and in    *)
(* get_sensor_value alike.                                                 *)
C16_LastWinsEverywhere ==
    /\ RecordLastWins
    /\ \A a \in InkArgs :
          DuplicateRead(a) =>
              ReadRet = LevelOf(Get(soup), LastOf(ApiMatches(Get(soup), Get(a))))

IsUpperMac(t) ==
    /\ Len(t) = Len(MacShape)
    /\ \A k \in 1..Len(t) :
          IF MacShape[k] = ":" THEN t[k] = ":"
          ELSE t[k] \in AsciiDigits \cup {"A", "B", "C", "D", "E", "F"}

(* C18: whenever the record contains mac_address, it is a colon-separated  *)
(* six-byte hex MAC in uppercase, from the table or from the text pattern. *)
C18_MacIsUppercaseHex ==
    (Parsed /\ ~Rec.raised /\ ~IsNone(Rec.mac_address)) => IsUpperMac(Get(Rec.mac_address))

NonBlank(o) == ~IsNone(o) /\ Strip(Get(o)) # <<>>

(* C19: the model is "Epson " + the stripped title when the title is not   *)
(* blank, otherwise "Epson " + the stripped header span text when that is  *)
(* not blank, otherwise None; the model accessor of an API object built on *)
(* a page with a non-blank title returns the same "Epson " + title.        *)
C19_ModelTitleThenHeader ==
    /\ (Parsed /\ ~Rec.raised) =>
          Rec.model = IF NonBlank(Pg.title) THEN Some(Epson(Strip(Get(Pg.title))))
                      ELSE IF NonBlank(Pg.header) THEN Some(Epson(Strip(Get(Pg.header))))
                      ELSE None
    /\ (ReadIs("model", None) /\ ~IsNone(soup) /\ NonBlank(Get(soup).title)) =>
          ReadRet = RStr(Epson(Strip(Get(Get(soup).title))))

C19_Witness ==
    /\ Parsed
    /\ Pg.title = Some(<<" ">>)
    /\ Pg.header = Some(T1)
    /\ Rec.model = Some(Epson(T1))

(* The cleaned value of the last row of the network table whose cleaned    *)
(* key is key, None when the page has no such row or the value is empty.   *)
NetValue(page, key) ==
    LET rows == IF IsNone(page.net) THEN <<>> ELSE Get(page.net)
        hits == {i \in 1..Len(rows) :
                    /\ ~IsNone(rows[i].key)
                    /\ ~IsNone(rows[i].val)
                    /\ P_clean_key(Strip(Get(rows[i].key))) = key}
        val  == P_clean_value(Strip(Get(rows[LastOf(hits)].val)))
    IN  IF hits = {} THEN None
        ELSE IF val = <<>> THEN None ELSE Some(val)

(* C20: the name is the first non-empty of the network table's "Device     *)
(* Name", its "Printer Name", the first EPSON + six hex digits token of    *)
(* the page text uppercased, and the model; it is omitted only when all    *)
(* four are absent.                                                        *)
C20_NameFirstNonEmpty ==
    (Parsed /\ ~Rec.raised) =>
        LET dev   == NetValue(Pg, KeyDeviceName)
            prn   == NetValue(Pg, KeyPrinterName)
            token == RE_EPSON_DEVNAME_search(PageText(Pg))
        IN  Rec.name = IF ~IsNone(dev) THEN dev
                       ELSE IF ~IsNone(prn) THEN prn
                       ELSE IF ~IsNone(token) THEN Some(Upper(Get(token)))
                       ELSE Rec.model

C20_Witness ==
    /\ Parsed
    /\ Pg.title = Some(T1)
    /\ Pg.net = Some(<<Row(KeyDeviceName, <<" ">>), Row(KeyPrinterName, Den)>>)
    /\ Pg.text = DevToken
    /\ Rec.name = Some(Den)

(* C21 as stated: the record's source is the label the parser was given,   *)
(* whatever the label and the page.                                        *)
C21_SourceEchoesLabel ==
    (Parsed /\ ~Rec.raised) => Rec.source = Some(p_source)

(* C21 amended: the record's source is the label when the label is not     *)
(* empty and the model (None without one) when it is empty.                *)
C21_SourceIsLabelOrModel ==
    (Parsed /\ ~Rec.raised) =>
        Rec.source = IF p_source # <<>> THEN Some(p_source)
                     ELSE IF NonBlank(Pg.title) THEN Some(Epson(Strip(Get(Pg.title))))
                     ELSE IF NonBlank(Pg.header) THEN Some(Epson(Strip(Get(Pg.header))))
                     ELSE None

C21_Witness ==
    /\ Parsed
    /\ p_source = <<>>
    /\ Pg.title = Some(T1)
    /\ Rec.source = Some(Epson(T1))

(* The record's level for the channel an ink sensor reads, as the value    *)
(* get_sensor_value would have to return.                                  *)
RecordLevel(a) ==
    IF LEVEL_SENSOR_TO_DIV[Get(a)].div = "mbicn"
    THEN IF IsNone(Rec.maintenance_box) THEN RNone ELSE RInt(Get(Rec.maintenance_box))
    ELSE IF LEVEL_SENSOR_TO_DIV[Get(a)].text \in DOMAIN Rec.inks
         THEN RInt(Rec.inks[LEVEL_SENSOR_TO_DIV[Get(a)].text])
         ELSE RNone

(* C28: on one page, get_sensor_value gives the printer status, each ink   *)
(* level and the waste level that parse() puts in its record: both absent  *)
(* or both the same value.                                                 *)
C28_ApiAgreesWithParser ==
    (Parsed /\ ~Rec.raised /\ ~IsNone(lastRead) /\ soup = p_soup) =>
        /\ ReadIs("get_sensor_value", Some("printer_status")) =>
              ReadRet = IF IsNone(Rec.printer_status) THEN RNone
                        ELSE RStr(Get(Rec.printer_status))
        /\ \A a \in InkArgs : ReadIs("get_sensor_value", a) => ReadRet = RecordLevel(a)

(* C26: after a successful update(), model and mac_address reflect only    *)
(* the page just fetched: with no title on that page model is the fallback *)
(* label, with no 'MAC Address' line on it mac_address is None.            *)
C26_AccessorsReflectLastPage ==
    (Idle /\ lastOk /\ ~IsNone(soup) /\ ~IsNone(lastRead)) =>
        /\ (ReadIs("model", None) /\ ~NonBlank(Get(soup).title)) =>
              ReadRet = RStr(FallbackModel)
        /\ (ReadIs("mac_address", None) /\ IsNone(Get(soup).macRest)) =>
              ReadRet = RNone

(* C27: a read interleaved with update() sees a complete state: the model  *)
(* and the MAC it returns are those of the page the sensor values are read *)
(* from at that moment, never the ones of the page before it.              *)
C27_ReadSeesCompleteState ==
    (~IsNone(lastRead) /\ ~IsNone(soup)) =>
        /\ (ReadIs("model", None) /\ NonBlank(Get(soup).title)) =>
              ReadRet = RStr(Epson(Strip(Get(Get(soup).title))))
        /\ (ReadIs("mac_address", None) /\ ~IsNone(Get(soup).macRest)) =>
              ReadRet = A_mac_address(A_extract_mac(Get(soup), None))

Submitted == ~IsNone(f_submitted)

Sub == Get(f_submitted)

(* C22: a submission of the user step with a reachable host that is not    *)
(* yet configured moves the flow to the device_name step, and an entry the *)
(* flow creates has the submitted name as title and exactly host, path and *)
(* name as data.                                                           *)
C22_ReachableHostReachesDeviceName ==
    /\ (Submitted /\ Sub.reachable /\ ~Sub.configuredBefore) => f_step = "device_name"
    /\ \A e \in entries :
          /\ DOMAIN e.data = {"host", "path", "name"}
          /\ e.title = e.data.name

(* C23: a submission for an unreachable device shows the user form again   *)
(* with the error cannot_connect, any other fault of the validation shows  *)
(* it with the error unknown, and an entry exists only for a host on which *)
(* validate_input has returned.                                            *)
C23_FaultsKeepUserStep ==
    /\ (Submitted /\ ~Sub.reachable) =>
          f_step = "user" /\ f_errors = Some("cannot_connect")
    /\ (Submitted /\ Sub.raised \notin {NoFault, "CannotConnect"}) =>
          f_step = "user" /\ f_errors = Some("unknown")
    /\ \A e \in entries : e.data.host \in f_validated

C23_Witness ==
    Submitted /\ ~Sub.reachable /\ f_step = "user" /\ f_errors = Some("cannot_connect")

(* C24: once the sensors are set up, after every poll cycle the            *)
(* coordinator's last_update_success is the API's available flag, and      *)
(* every entity reports available exactly when the most recent update()    *)
(* succeeded.                                                              *)
C24_AvailableIffLastPollSucceeded ==
    c_setup =>
        /\ last_update_success = available
        /\ \A key \in entities :
              EntityAvailable(last_update_success, available) = lastOk

C24_Witness ==
    c_setup /\ entities # {} /\ ~lastOk /\ ~EntityAvailable(last_update_success, available)

(* The ink keys of SENSOR_TYPES that have an API sensor name for the same  *)
(* channel code.                                                           *)
InkKeyOfSensor ==
    [s \in SensorNames \ {"clean"} |->
        CASE s = "black"        -> "BK"
          [] s = "photoblack"   -> "PB"
          [] s = "magenta"      -> "M"
          [] s = "cyan"         -> "C"
          [] s = "yellow"       -> "Y"
          [] s = "lightcyan"    -> "LC"
          [] s = "lightmagenta" -> "LM"]

(* C25: after sensor setup there is an entity for every ink channel and    *)
(* for the waste tank whose level the page of the setup gives, and none    *)
(* for a key whose read on that page is absent or 'Unknown'.               *)
C25_EntitiesMatchPage ==
    c_setup =>
        /\ \A s \in DOMAIN InkKeyOfSensor :
              A_get_sensor_value(e_page, Some(s)).t = "int" => InkKeyOfSensor[s] \in entities
        /\ A_get_sensor_value(e_page, Some("clean")).t = "int" => "clean" \in entities
        /\ \A key \in SENSOR_TYPES :
              A_get_sensor_value(e_page, Some(key)) \in {RNone, RStr(Unknown)} =>
                  key \notin entities

====
